---- MODULE Spec2Model ----
(***************************************************************************)
(* A model of mcp-server-imap (src/main.py): the query compiler            *)
(* dsl_to_search, the body selection get_email_body, and the two           *)
(* operations search and fetch with their IMAP sessions.                   *)
(*                                                                         *)
(* Python strings are modelled as sequences of one-character strings, so   *)
(* that parsing and formatting (dates, message ids) are computed and not   *)
(* assumed.  A Python dict is a sequence of entries with distinct keys, in *)
(* insertion order.                                                        *)
(***************************************************************************)
EXTENDS Integers, Sequences, FiniteSets, TLC

VARIABLES
    dsl,        \* the argument of dsl_to_search
    dslPc,      \* "ready" | "returned" | "raised"
    dslResult   \* the list dsl_to_search returned (<<>> before, and when raised)

dslVars == <<dsl, dslPc, dslResult>>

VARIABLES
    msg_arg,    \* the argument of get_email_body
    bodyPc,     \* "ready" | "returned"
    bodyResult  \* the string get_email_body returned (<<>> before)

bodyVars == <<msg_arg, bodyPc, bodyResult>>

VARIABLES
    useStartTls,    \* IMAP_USE_STARTTLS
    op,             \* the tool that was called: "none" | "search" | "fetch"
    pc,             \* where the call is: "idle", the next step, or "done"
    outcome,        \* "none" | "returned" | "raised"
    failure,        \* the step that raised ("none" if none did)
    folder,         \* search: the folder argument; fetch: folder of the current id
    criteria_arg,   \* search: the criteria argument
    fields_arg,     \* search: the fields argument
    fetchFlags,     \* search: <<fetch_headers, fetch_body>>
    search_criteria,\* search: ["charset", "UTF-8"] + dsl_to_search(criteria)
    msg_ids,        \* search: the ids client.search returned
    batch_i,        \* search: the loop variable i of the batch loop
    resp,           \* search: the dict the batch responses are merged into
    message_ids,    \* fetch: the argument
    idx,            \* fetch: position in message_ids of the id being looked up
    results,        \* fetch: the dict built so far
    retval,         \* the value returned (search: messages; fetch: results)
    sessions,       \* number of IMAP sessions open
    log             \* the transport calls and pauses so far, in order

opVars == <<useStartTls, op, pc, outcome, failure, folder, criteria_arg, fields_arg,
            fetchFlags,
            search_criteria, msg_ids, batch_i, resp, message_ids, idx, results,
            retval, sessions, log>>

vars == <<dslVars, bodyVars, opVars>>

---------------------------------------------------------------------------
(* Characters and numbers *)

Digits == <<"0", "1", "2", "3", "4", "5", "6", "7", "8", "9">>

IsDigit(c) == \E i \in 1..10 : Digits[i] = c

DigitVal(c) == (CHOOSE i \in 1..10 : Digits[i] = c) - 1

RECURSIVE Decimal(_)
\* str(n) / "%d" of a natural number
Decimal(n) == IF n < 10 THEN <<Digits[n + 1]>>
              ELSE Decimal(n \div 10) \o <<Digits[(n % 10) + 1]>>

RECURSIVE Concat(_)
\* the concatenation of a sequence of sequences
Concat(ss) == IF ss = <<>> THEN <<>> ELSE Head(ss) \o Concat(Tail(ss))

---------------------------------------------------------------------------
(* format_date: datetime.strptime(date_str, "%Y-%m-%d").strftime("%d-%b-%Y") *)

MonthAbbr == << <<"J","a","n">>, <<"F","e","b">>, <<"M","a","r">>,
                <<"A","p","r">>, <<"M","a","y">>, <<"J","u","n">>,
                <<"J","u","l">>, <<"A","u","g">>, <<"S","e","p">>,
                <<"O","c","t">>, <<"N","o","v">>, <<"D","e","c">> >>

IsLeap(y) == (y % 4 = 0 /\ y % 100 # 0) \/ y % 400 = 0

DaysInMonth(y, m) ==
    IF m = 2 THEN (IF IsLeap(y) THEN 29 ELSE 28)
    ELSE IF m \in {4, 6, 9, 11} THEN 30 ELSE 31

At(s, i) == IF i \in 1..Len(s) THEN s[i] ELSE ""

\* %m is the regular expression 1[0-2]|0[1-9]|[1-9]: the length matched at
\* position p when the next character of the format ("-") must follow; 0 if none
MonthLen(s, p) ==
    LET two == \/ (At(s, p) = "1" /\ At(s, p + 1) \in {"0", "1", "2"})
               \/ (At(s, p) = "0" /\ IsDigit(At(s, p + 1)) /\ At(s, p + 1) # "0")
        one == IsDigit(At(s, p)) /\ At(s, p) # "0"
    IN  IF two /\ At(s, p + 2) = "-" THEN 2
        ELSE IF one /\ At(s, p + 1) = "-" THEN 1
        ELSE 0

\* %d is the regular expression 3[01]|[12]\d|0[1-9]|[1-9]| [1-9]: the length of
\* the first alternative that matches at position p; 0 if none
DayLen(s, p) ==
    IF At(s, p) = "3" /\ At(s, p + 1) \in {"0", "1"} THEN 2
    ELSE IF At(s, p) \in {"1", "2"} /\ IsDigit(At(s, p + 1)) THEN 2
    ELSE IF At(s, p) = "0" /\ IsDigit(At(s, p + 1)) /\ At(s, p + 1) # "0" THEN 2
    ELSE IF IsDigit(At(s, p)) /\ At(s, p) # "0" THEN 1
    ELSE IF At(s, p) = " " /\ IsDigit(At(s, p + 1)) /\ At(s, p + 1) # "0" THEN 2
    ELSE 0

RECURSIVE NumberAt(_, _, _)
\* int() of the n characters of s from position p (a blank counts as nothing)
NumberAt(s, p, n) ==
    IF n = 0 THEN 0
    ELSE LET c == s[p + n - 1]
         IN  IF c = " " THEN NumberAt(s, p, n - 1)
             ELSE 10 * NumberAt(s, p, n - 1) + DigitVal(c)

NoDate == [ok |-> FALSE, y |-> 0, m |-> 0, d |-> 0]

\* datetime(y, m, d): the day must exist
MakeDate(y, m, d) ==
    IF y < 1 \/ d > DaysInMonth(y, m) THEN NoDate
    ELSE [ok |-> TRUE, y |-> y, m |-> m, d |-> d]

\* the match of the format against s, the month taking ml characters and the
\* day dl: nothing may remain after the day
MatchDate(s, ml, dl) ==
    IF ~(\A i \in 1..4 : IsDigit(At(s, i))) \/ At(s, 5) # "-" THEN NoDate
    ELSE IF ml = 0 \/ dl = 0 THEN NoDate
    ELSE IF 6 + ml + dl # Len(s) THEN NoDate    \* unconverted data remains
    ELSE MakeDate(NumberAt(s, 1, 4), NumberAt(s, 6, ml), NumberAt(s, 7 + ml, dl))

MatchDay(s, ml) == MatchDate(s, ml, DayLen(s, 7 + ml))

\* strptime(date_str, "%Y-%m-%d"): [ok |-> FALSE] stands for ValueError
strptime(s) == MatchDay(s, MonthLen(s, 6))

\* dt.strftime("%d-%b-%Y") (C locale; %Y as glibc prints it, without padding)
strftime(dt) ==
    (IF dt.d < 10 THEN <<"0">> ELSE <<>>) \o Decimal(dt.d)
        \o <<"-">> \o MonthAbbr[dt.m] \o <<"-">> \o Decimal(dt.y)

Formatted(dt) ==
    IF dt.ok THEN [err |-> FALSE, s |-> strftime(dt)]
    ELSE [err |-> TRUE, s |-> <<>>]

\* [err |-> TRUE] stands for the ValueError strptime raises
format_date(date_str) == Formatted(strptime(date_str))

---------------------------------------------------------------------------
(* Search criteria lists: a token is a string or a nested list *)

Tok(s)      == [s |-> s, sub |-> <<>>, nested |-> FALSE]
NestedTok(l) == [s |-> <<>>, sub |-> l, nested |-> TRUE]

FROM    == <<"F","R","O","M">>
TO      == <<"T","O">>
CC      == <<"C","C">>
SUBJECT == <<"S","U","B","J","E","C","T">>
SINCE   == <<"S","I","N","C","E">>
BEFORE  == <<"B","E","F","O","R","E">>
NOT     == <<"N","O","T">>
OR      == <<"O","R">>
ALL     == <<"A","L","L">>

---------------------------------------------------------------------------
(* Dicts: a sequence of entries [k, v, subs, isList] with distinct keys.   *)
(* A leaf entry has its string in v; an or/not entry has its list in subs  *)
(* (isList = FALSE: the value is not a list).                              *)

Has(d, key) == \E i \in 1..Len(d) : d[i].k = key

Get(d, key) == d[CHOOSE i \in 1..Len(d) : d[i].k = key]

Ok(toks) == [err |-> FALSE, toks |-> toks]
Raise    == [err |-> TRUE, toks |-> <<>>]

DatedPair(opcode, f) == IF f.err THEN Raise ELSE Ok(<<Tok(opcode), Tok(f.s)>>)

\* [opcode, format_date(date_str)]
Dated(opcode, date_str) == DatedPair(opcode, format_date(date_str))

parse_condition(cond) ==
    IF Has(cond, "from") THEN Ok(<<Tok(FROM), Tok(Get(cond, "from").v)>>)
    ELSE IF Has(cond, "to") THEN Ok(<<Tok(TO), Tok(Get(cond, "to").v)>>)
    ELSE IF Has(cond, "cc") THEN Ok(<<Tok(CC), Tok(Get(cond, "cc").v)>>)
    ELSE IF Has(cond, "subject")
        THEN Ok(<<Tok(SUBJECT), Tok(Get(cond, "subject").v)>>)
    ELSE IF Has(cond, "since") THEN Dated(SINCE, Get(cond, "since").v)
    ELSE IF Has(cond, "before") THEN Dated(BEFORE, Get(cond, "before").v)
    ELSE Ok(<<>>)

\* the results of a sequence of calls, any of which may raise
AnyErr(rs) == \E i \in 1..Len(rs) : rs[i].err

Toks(rs) == [i \in 1..Len(rs) |-> rs[i].toks]

\* the lists of a sequence of calls joined, unless one of them raised
Gather(rs) == IF AnyErr(rs) THEN Raise ELSE Ok(Concat(Toks(rs)))

FixedKeys == <<"from", "to", "cc", "subject", "since", "before">>

\* as LeafTokens, but emitting the pairs in the order of parse_condition's tests
\* instead of the order of criteria.items()
LeafTokensFixedOrder(criteria) ==
    Gather([i \in 1..Len(FixedKeys) |->
              IF Has(criteria, FixedKeys[i])
              THEN parse_condition(<<Get(criteria, FixedKeys[i])>>)
              ELSE Ok(<<>>)])

\* for key, value in criteria.items(): if key not in ["or", "not"]: ...
LeafTokens(criteria) ==
    Gather([i \in 1..Len(criteria) |->
              IF criteria[i].k \in {"or", "not"} THEN Ok(<<>>)
              ELSE parse_condition(<<criteria[i]>>)])

\* as NotTokens, with result.extend(["NOT"] + not_conditions): no nested list
NotTokensFlat(not_conditions) ==
    IF not_conditions # <<>> THEN <<Tok(NOT)>> \o not_conditions
    ELSE <<>>

\* result.extend(["NOT", not_conditions]) if not_conditions
NotTokens(not_conditions) ==
    IF not_conditions # <<>> THEN <<Tok(NOT), NestedTok(not_conditions)>>
    ELSE <<>>

RECURSIVE OrFoldInfix(_, _, _)
\* as OrFold, but result = result + ["OR"] + or_conditions[i]
OrFoldInfix(result, or_conditions, i) ==
    IF i > Len(or_conditions) THEN result
    ELSE OrFoldInfix(result \o <<Tok(OR)>> \o or_conditions[i], or_conditions, i + 1)

RECURSIVE OrFold(_, _, _)
\* for i in range(2, len(or_conditions)): result = ["OR"] + result + or_conditions[i]
OrFold(result, or_conditions, i) ==
    IF i > Len(or_conditions) THEN result
    ELSE OrFold(<<Tok(OR)>> \o result \o or_conditions[i], or_conditions, i + 1)

\* the "or" branch: result is the list built so far
OrTokens(result, or_conditions) ==
    IF Len(or_conditions) >= 2
    THEN OrFold(result \o <<Tok(OR)>> \o or_conditions[1] \o or_conditions[2],
                or_conditions, 3)
    ELSE result

\* if len(result) == 0 and isinstance(criteria, dict): return parse_condition(criteria)
Finish(criteria, result) ==
    IF Len(result) = 0 THEN parse_condition(criteria) ELSE Ok(result)

\* the body of parse_criteria, given what the leaf keys and the sub-expressions
\* of "not" and "or" compiled to
Combine(criteria, leaf, nots, ors) ==
    IF leaf.err \/ AnyErr(nots) \/ AnyErr(ors) THEN Raise
    ELSE Finish(criteria,
                OrTokens(leaf.toks \o NotTokens(Concat(Toks(nots))), Toks(ors)))

RECURSIVE parse_criteria(_)

\* [parse_criteria(condition) for condition in criteria[key]], if it is a list
SubCriteria(criteria, key) ==
    IF Has(criteria, key) /\ Get(criteria, key).isList
    THEN [i \in 1..Len(Get(criteria, key).subs) |->
            parse_criteria(Get(criteria, key).subs[i])]
    ELSE <<>>

parse_criteria(criteria) ==
    Combine(criteria, LeafTokens(criteria),
            SubCriteria(criteria, "not"), SubCriteria(criteria, "or"))

\* as AllIfEmpty, without the append: an empty list is returned as it is
AllIfEmptyKeep(parsed) == parsed

\* if len(search_criteria) == 0: search_criteria.append("ALL")
AllIfEmpty(parsed) ==
    IF parsed.err THEN Raise
    ELSE IF Len(parsed.toks) = 0 THEN Ok(<<Tok(ALL)>>)
    ELSE parsed

dsl_to_search(d) == AllIfEmpty(parse_criteria(d))

---------------------------------------------------------------------------
(* Messages: a raw message is its header fields and its parts in the order *)
(* of msg.walk(), each part with its content type, its Content-Disposition *)
(* and its decoded payload.                                                *)

Uppers == <<"A","B","C","D","E","F","G","H","I","J","K","L","M",
            "N","O","P","Q","R","S","T","U","V","W","X","Y","Z">>
Lowers == <<"a","b","c","d","e","f","g","h","i","j","k","l","m",
            "n","o","p","q","r","s","t","u","v","w","x","y","z">>

LowerChar(c) == IF \E n \in 1..26 : Uppers[n] = c
                THEN Lowers[CHOOSE n \in 1..26 : Uppers[n] = c]
                ELSE c

\* str.lower()
Lower(s) == [n \in 1..Len(s) |-> LowerChar(s[n])]

\* sub in s
Contains(sub, s) ==
    \E n \in 0..(Len(s) - Len(sub)) : SubSeq(s, n + 1, n + Len(sub)) = sub

None == [some |-> FALSE, s |-> <<>>]
Some(s) == [some |-> TRUE, s |-> s]

TextPlain == <<"t","e","x","t","/","p","l","a","i","n">>
TextHtml  == <<"t","e","x","t","/","h","t","m","l">>
Attachment == <<"a","t","t","a","c","h","m","e","n","t">>

RECURSIVE WalkParts(_, _, _)
\* the loop of get_email_body over the parts from position n on
WalkParts(parts, n, found) ==
    IF n > Len(parts) THEN found
    ELSE LET part == parts[n]
             content_disposition == Lower(part.disposition)
         IN  IF Contains(Attachment, content_disposition)
             THEN WalkParts(parts, n + 1, found)
             ELSE IF part.ctype = TextPlain /\ ~found.text.some
             THEN WalkParts(parts, n + 1,
                            [found EXCEPT !.text = Some(part.payload)])
             ELSE IF part.ctype = TextHtml /\ ~found.html.some
             THEN WalkParts(parts, n + 1,
                            [found EXCEPT !.html = Some(part.payload)])
             ELSE WalkParts(parts, n + 1, found)

\* as Truthy, with "is not None": an empty string counts as found
TruthyNotNone(x) == x.some

\* a Python value used as a condition: None and "" are false
Truthy(x) == x.some /\ x.s # <<>>

get_email_body(msg) ==
    LET found == WalkParts(msg.parts, 1, [text |-> None, html |-> None])
    IN  IF Truthy(found.text) THEN found.text.s
        ELSE IF Truthy(found.html) THEN found.html.s
        ELSE <<>>

HeaderNames == << <<"F","r","o","m">>, <<"T","o">>, <<"C","c">>,
                  <<"S","u","b","j","e","c","t">>, <<"D","a","t","e">>,
                  <<"M","e","s","s","a","g","e","-","I","D">> >>

\* header in msg (field names compare without case)
HasHeader(msg, header) ==
    \E n \in 1..Len(msg.headers) : Lower(msg.headers[n].name) = Lower(header)

\* str(msg[header]): the first such field
HeaderValue(msg, header) ==
    msg.headers[CHOOSE n \in 1..Len(msg.headers) :
                    /\ Lower(msg.headers[n].name) = Lower(header)
                    /\ \A m \in 1..(n - 1) :
                          Lower(msg.headers[m].name) # Lower(header)].value

\* the headers dict of a message of the search result
ExtractHeaders(msg) ==
    Concat([n \in 1..Len(HeaderNames) |->
              IF HasHeader(msg, HeaderNames[n])
              THEN << [k |-> Lower(HeaderNames[n]),
                       v |-> HeaderValue(msg, HeaderNames[n])] >>
              ELSE <<>>])

---------------------------------------------------------------------------
(* Message ids: "<numeric id>@<folder>" *)

\* f"{id}@{folder}"
FormatId(id, fld) == Decimal(id) \o <<"@">> \o fld

\* as SplitAt, with message_id.rsplit("@", 1): split at the last "@"
SplitAtLast(message_id) ==
    IF \E n \in 1..Len(message_id) : message_id[n] = "@"
    THEN LET n == CHOOSE n \in 1..Len(message_id) :
                     /\ message_id[n] = "@"
                     /\ \A m \in (n + 1)..Len(message_id) : message_id[m] # "@"
         IN  << SubSeq(message_id, 1, n - 1),
                SubSeq(message_id, n + 1, Len(message_id)) >>
    ELSE << message_id >>

\* message_id.split("@", 1): one or two pieces
SplitAt(message_id) ==
    IF \E n \in 1..Len(message_id) : message_id[n] = "@"
    THEN LET n == CHOOSE n \in 1..Len(message_id) :
                     /\ message_id[n] = "@"
                     /\ \A m \in 1..(n - 1) : message_id[m] # "@"
         IN  << SubSeq(message_id, 1, n - 1),
                SubSeq(message_id, n + 1, Len(message_id)) >>
    ELSE << message_id >>

\* int(id) of a string of decimal digits; [ok |-> FALSE] stands for ValueError
ParseInt(s) ==
    IF s # <<>> /\ \A n \in 1..Len(s) : IsDigit(s[n])
    THEN [ok |-> TRUE, n |-> NumberAt(s, 1, Len(s))]
    ELSE [ok |-> FALSE, n |-> 0]

---------------------------------------------------------------------------
(* IMAP SEARCH semantics of a criteria list (RFC 3501 6.4.4): adjacent     *)
(* search keys are AND-ed, OR takes the next two search keys, NOT the next *)
(* one, a nested list is a parenthesised group.  A message is the set of   *)
(* <<opcode, operand>> pairs it satisfies.                                 *)

StringKeys == {FROM, TO, CC, SUBJECT, SINCE, BEFORE}

NoKey == [ok |-> FALSE, next |-> 0, val |-> FALSE]

RECURSIVE EvalKey(_, _, _), EvalFrom(_, _, _)
\* the search key that starts at toks[pos]: whether there is one, where the
\* next one starts, and whether msg satisfies it
EvalKey(toks, pos, msg) ==
    IF pos > Len(toks) THEN NoKey
    ELSE LET t == toks[pos]
         IN  IF t.nested
             THEN LET r == EvalFrom(t.sub, 1, msg)
                  IN  [ok |-> r.ok /\ t.sub # <<>>, next |-> pos + 1, val |-> r.val]
             ELSE IF t.s = ALL THEN [ok |-> TRUE, next |-> pos + 1, val |-> TRUE]
             ELSE IF t.s \in StringKeys
             THEN IF pos + 1 > Len(toks) \/ toks[pos + 1].nested THEN NoKey
                  ELSE [ok |-> TRUE, next |-> pos + 2,
                        val |-> <<t.s, toks[pos + 1].s>> \in msg]
             ELSE IF t.s = NOT
             THEN LET r == EvalKey(toks, pos + 1, msg)
                  IN  [ok |-> r.ok, next |-> r.next, val |-> ~r.val]
             ELSE IF t.s = OR
             THEN LET a == EvalKey(toks, pos + 1, msg)
                  IN  IF ~a.ok THEN NoKey
                      ELSE LET b == EvalKey(toks, a.next, msg)
                           IN  [ok |-> b.ok, next |-> b.next,
                                val |-> a.val \/ b.val]
             ELSE NoKey

\* the conjunction of the search keys from toks[pos] to the end
EvalFrom(toks, pos, msg) ==
    IF pos > Len(toks) THEN [ok |-> TRUE, val |-> TRUE]
    ELSE LET k == EvalKey(toks, pos, msg)
         IN  IF ~k.ok THEN [ok |-> FALSE, val |-> FALSE]
             ELSE LET r == EvalFrom(toks, k.next, msg)
                  IN  [ok |-> r.ok, val |-> k.val /\ r.val]

\* the server accepts the criteria (at least one well-formed search key)
WellFormed(toks) == toks # <<>> /\ EvalFrom(toks, 1, {}).ok

\* the SEARCH command with these criteria returns msg
Matches(toks, msg) == WellFormed(toks) /\ EvalFrom(toks, 1, msg).val

---------------------------------------------------------------------------
(* The meaning the search docstring gives to criteria: leaf keys are       *)
(* AND-ed, "or" needs ANY condition to match, "not" means NOT c1 AND NOT   *)
(* c2 AND ...                                                              *)

LeafKeys == <<"from", "to", "cc", "subject", "since", "before">>

IsLeafKey(key) == \E i \in 1..Len(LeafKeys) : LeafKeys[i] = key

Opcode(key) ==
    CASE key = "from" -> FROM [] key = "to" -> TO [] key = "cc" -> CC
      [] key = "subject" -> SUBJECT [] key = "since" -> SINCE
      [] key = "before" -> BEFORE

Operand(e) == IF e.k \in {"since", "before"} THEN format_date(e.v).s ELSE e.v

RECURSIVE DocMatches(_, _)
DocMatches(criteria, msg) ==
    /\ \A i \in 1..Len(criteria) :
          IsLeafKey(criteria[i].k) =>
              <<Opcode(criteria[i].k), Operand(criteria[i])>> \in msg
    /\ Has(criteria, "or") /\ Get(criteria, "or").isList =>
          \E i \in 1..Len(Get(criteria, "or").subs) :
              DocMatches(Get(criteria, "or").subs[i], msg)
    /\ Has(criteria, "not") /\ Get(criteria, "not").isList =>
          \A i \in 1..Len(Get(criteria, "not").subs) :
              ~DocMatches(Get(criteria, "not").subs[i], msg)

---------------------------------------------------------------------------
(* The inputs of dsl_to_search *)

MaxLeafKeys == 2    \* keys of a leaf-only expression
MaxSubs == 3        \* sub-expressions of an or / not list

Leaf(key, v)     == [k |-> key, v |-> v, subs |-> <<>>, isList |-> FALSE]
ListOf(key, subs) == [k |-> key, v |-> <<>>, subs |-> subs, isList |-> TRUE]

Date1 == <<"2","0","2","3","-","0","1","-","1","5">>
Date2 == <<"2","0","2","4","-","0","4","-","0","1">>

DateStrings ==
    { Date1, Date2,
      <<"2","0","2","3","-","1","-","5">>,             \* accepted by strptime
      <<"2","0","2","4","-","0","2","-","2","9">>,     \* leap day
      <<"2","0","2","3","-","1","2","-","3","1">>,
      <<"2","0","2","3","-","0","2","-","2","9">>,     \* no such day
      <<"2","0","2","3","-","1","3","-","0","1">>,     \* no such month
      <<"2","0","2","3","-","0","1","-","1","5","0">>, \* unconverted data
      <<"1","5","-","0","1","-","2","0","2","3">>,
      <<"2","0","2","3","/","0","1","/","1","5">>,
      <<>> }

BadDate == <<"2","0","2","3","-","1","3","-","0","1">>

LeafEntries ==
    { Leaf("from", <<"a">>), Leaf("to", <<"b">>), Leaf("cc", <<"c">>),
      Leaf("subject", <<"s">>), Leaf("since", Date1), Leaf("before", Date2),
      Leaf("since", BadDate), Leaf("label", <<"x">>) }

DistinctKeys(d) == \A i, j \in 1..Len(d) : d[i].k = d[j].k => i = j

Lists(S, n) == UNION {[1..m -> S] : m \in 0..n}

LeafDicts(n) == {d \in Lists(LeafEntries, n) : DistinctKeys(d)}

DateDicts == {<<Leaf(key, v)>> : key \in {"since", "before"}, v \in DateStrings}

\* the sub-expressions of or / not lists
SubPool ==
    { <<Leaf("from", <<"a">>)>>,
      <<Leaf("to", <<"b">>)>>,
      <<Leaf("cc", <<"c">>), Leaf("subject", <<"s">>)>>,
      <<>>,
      <<ListOf("not", << <<Leaf("cc", <<"c">>)>> >>)>>,
      <<ListOf("or", << <<Leaf("from", <<"a">>)>>, <<Leaf("subject", <<"s">>)>> >>)>> }

MixPool == { <<Leaf("from", <<"a">>)>>, <<Leaf("subject", <<"s">>)>> }

OrDicts  == {<<ListOf("or", l)>> : l \in Lists(SubPool, MaxSubs)}
NotDicts == {<<ListOf("not", l)>> : l \in Lists(SubPool, MaxSubs)}

MixLeaves == { <<>>, <<Leaf("to", <<"b">>)>>, <<Leaf("since", BadDate)>>,
               <<Leaf("cc", <<"c">>), Leaf("before", Date2)>> }

MixNots == {<<>>, <<Leaf("not", <<"x">>)>>}
              \cup {<<ListOf("not", l)>> : l \in Lists(MixPool, MaxSubs - 1)}

MixOrs == {<<>>, <<Leaf("or", <<"x">>)>>}
              \cup {<<ListOf("or", l)>> : l \in Lists(MixPool, MaxSubs)}

\* the keys in any of the orders a caller can give them in
MixDicts == {l \o n \o o : l \in MixLeaves, n \in MixNots, o \in MixOrs}
              \cup {o \o n \o l : l \in MixLeaves, n \in MixNots, o \in MixOrs}

DslInputs == LeafDicts(MaxLeafKeys) \cup DateDicts \cup OrDicts \cup NotDicts
                \cup MixDicts

\* the messages of the mailbox, by the search keys they satisfy
MsgAtoms == {<<FROM, <<"a">>>>, <<TO, <<"b">>>>, <<CC, <<"c">>>>,
             <<SUBJECT, <<"s">>>>}

Messages == SUBSET MsgAtoms

---------------------------------------------------------------------------
(* The IMAP server and the arguments of the tools *)

BATCH_SIZE == 50
SLEEP_TIME_MS == 500    \* SLEEP_TIME = 0.5 seconds

MaxIds == 101           \* ids a search returns
MaxFetchIds == 2        \* ids passed to fetch

Inbox == <<"I","N","B","O","X">>

\* the messages of the server, as email.message_from_bytes parses them; the
\* RFC822 bytes of a message are modelled by its position in this list
RawMsgs ==
    << [headers |-> << [name |-> <<"F","r","o","m">>, value |-> <<"a">>],
                       [name |-> <<"S","u","b","j","e","c","t">>, value |-> <<"s">>] >>,
        parts |-> << [ctype |-> <<"m","u","l","t","i","p","a","r","t">>,
                      disposition |-> <<>>, payload |-> <<>>],
                     [ctype |-> TextHtml, disposition |-> <<>>, payload |-> <<"h">>],
                     [ctype |-> TextPlain, disposition |-> <<>>, payload |-> <<"p">>] >>],
       [headers |-> << [name |-> <<"f","r","o","m">>, value |-> <<"b">>],
                       [name |-> <<"T","o">>, value |-> <<"c">>],
                       [name |-> <<"F","r","o","m">>, value |-> <<"x">>] >>,
        parts |-> << [ctype |-> TextHtml, disposition |-> <<>>, payload |-> <<"h">>] >>],
       [headers |-> << [name |-> <<"D","a","t","e">>, value |-> <<"d">>] >>,
        parts |-> << [ctype |-> TextPlain,
                      disposition |-> <<"A","t","t","a","c","h","m","e","n","t",";">>,
                      payload |-> <<"f">>],
                     [ctype |-> TextPlain, disposition |-> <<>>, payload |-> <<>>],
                     [ctype |-> TextPlain, disposition |-> <<>>, payload |-> <<"q">>],
                     [ctype |-> TextHtml, disposition |-> <<>>, payload |-> <<"h">>] >>] >>

\* a part of a message as msg.walk() yields it
Part(ctype, disposition, payload) ==
    [ctype |-> ctype, disposition |-> disposition, payload |-> payload]

MaxParts == 3           \* parts of a message given to get_email_body

PartPool ==
    { Part(<<"m","u","l","t","i","p","a","r","t">>, <<>>, <<>>),
      Part(TextPlain, <<>>, <<"p">>),
      Part(TextPlain, <<>>, <<"q">>),
      Part(TextPlain, <<>>, <<>>),
      Part(TextPlain, <<"A","t","t","a","c","h","m","e","n","t">>, <<"f">>),
      Part(TextHtml, <<>>, <<"h">>),
      Part(TextHtml, <<"i","n","l","i","n","e">>, <<"g">>),
      Part(TextHtml, <<"a","t","t","a","c","h","m","e","n","t">>, <<"k">>) }

\* a message without parts
NoMsg == [headers |-> <<>>, parts |-> <<>>]

\* the messages get_email_body is given
MsgInputs == {[headers |-> <<>>, parts |-> ps] : ps \in Lists(PartPool, MaxParts)}

\* the RFC822 bytes the server holds for a numeric id
RawOf(id) == (id % Len(RawMsgs)) + 1

\* email.message_from_bytes(raw_email, policy=policy.default)
message_from_bytes(raw_email) == RawMsgs[raw_email]

\* the headers dict and the body of each message of the server, computed once
HeadersOfRaw == [raw \in 1..Len(RawMsgs) |-> ExtractHeaders(message_from_bytes(raw))]
BodyOfRaw    == [raw \in 1..Len(RawMsgs) |-> get_email_body(message_from_bytes(raw))]

\* what client.search can return: n ids, ascending or descending
SearchResults ==
    UNION {{[n \in 1..len |-> n], [n \in 1..len |-> len + 1 - n]} : len \in 0..MaxIds}

Reverse(q) == [n \in 1..Len(q) |-> q[Len(q) + 1 - n]]

\* what client.fetch(ids, ["RFC822"]) can return: the messages of the ids, in
\* the order asked or in another one, or all but one of them
FetchReplies(ids) ==
    LET full == [n \in 1..Len(ids) |-> [k |-> ids[n], raw |-> RawOf(ids[n])]]
    IN  {full, Reverse(full), Tail(full), SubSeq(full, 1, Len(full) - 1)}

SearchCriteria ==
    { <<>>,
      <<Leaf("from", <<"a">>)>>,
      <<Leaf("since", BadDate)>>,
      <<ListOf("not", << <<Leaf("since", BadDate)>> >>)>>,
      <<ListOf("or", << <<Leaf("from", <<"a">>)>>, <<Leaf("before", BadDate)>> >>)>>,
      <<Leaf("before", <<"2","0","2","3","-","0","2","-","2","9">>)>>,
      <<Leaf("from", <<"a">>), ListOf("or", << <<Leaf("since", <<"x">>)>> >>)>>,
      <<ListOf("not", << <<ListOf("or", << <<Leaf("from", <<"a">>)>>,
                                           <<Leaf("since", BadDate)>> >>)>> >>)>> }

\* the fields argument: None, or a dict of booleans
NoFields == [isNone |-> TRUE, d |-> <<>>]
Fields(d) == [isNone |-> FALSE, d |-> d]

FieldsInputs ==
    { NoFields,
      Fields(<<>>),
      Fields(<<[k |-> "headers", b |-> FALSE], [k |-> "body", b |-> FALSE]>>),
      Fields(<<[k |-> "headers", b |-> TRUE]>>),
      Fields(<<[k |-> "body", b |-> TRUE]>>),
      Fields(<<[k |-> "body", b |-> TRUE], [k |-> "headers", b |-> TRUE]>>) }

FetchIdPool ==
    { <<"4","2","@">> \o Inbox,
      <<"7","@","a","@","b">>,
      <<"x","@">> \o Inbox,
      <<"4","2">> }

FetchInputs == Lists(FetchIdPool, MaxFetchIds)

---------------------------------------------------------------------------
(* Python dicts with any keys: sequences of entries [k, ...] in insertion  *)
(* order                                                                   *)

DictHas(d, key) == \E n \in 1..Len(d) : d[n].k = key

DictGet(d, key) == d[CHOOSE n \in 1..Len(d) : d[n].k = key]

\* d[e.k] = e
DictSet(d, e) ==
    IF DictHas(d, e.k)
    THEN [n \in 1..Len(d) |-> IF d[n].k = e.k THEN e ELSE d[n]]
    ELSE Append(d, e)

\* d.update(other), other a dict: the keys d has keep their place and take the
\* new value, the new keys are added in the order other has them in
DictUpdate(d, other) ==
    LET IsNew(e) == ~DictHas(d, e.k)
    IN  [n \in 1..Len(d) |->
           IF DictHas(other, d[n].k) THEN DictGet(other, d[n].k) ELSE d[n]]
        \o SelectSeq(other, IsNew)

\* fields.get(key, False), after "if fields is None: fields = {}"
FieldsGet(f, key) == IF DictHas(f.d, key) THEN DictGet(f.d, key).b ELSE FALSE

---------------------------------------------------------------------------
(* The steps of search *)

Ev(name) == [ev |-> name, ids |-> <<>>, folder |-> <<>>, criteria |-> <<>>, ms |-> 0]

ConnectEv      == Ev("connect")
CloseEv        == Ev("close")
SelectEv(fld)  == [Ev("select") EXCEPT !.folder = fld]
SearchEv(crit) == [Ev("search") EXCEPT !.criteria = crit]
FetchEv(ids)   == [Ev("fetch") EXCEPT !.ids = ids]
SleepEv(ms)    == [Ev("sleep") EXCEPT !.ms = ms]

Charset == Tok(<<"c","h","a","r","s","e","t">>)
Utf8    == Tok(<<"U","T","F","-","8">>)

\* fetch_email_data = fetch_headers or fetch_body
fetch_email_data == fetchFlags[1] \/ fetchFlags[2]

\* as ShortCircuit, with "and" for "or"
ShortCircuitBoth(data, ids) == ~data /\ ids = <<>>

\* if not fetch_email_data or not msg_ids: return {"messages": []}
ShortCircuit(data, ids) == ~data \/ ids = <<>>

\* as Batch, with a slice one too long: msg_ids[i : i + BATCH_SIZE + 1]
BatchOneMore(ids, n) ==
    SubSeq(ids, n + 1,
           IF n + BATCH_SIZE + 1 < Len(ids) THEN n + BATCH_SIZE + 1 ELSE Len(ids))

\* batch_ids = msg_ids[i : i + BATCH_SIZE]
Batch(ids, n) ==
    SubSeq(ids, n + 1, IF n + BATCH_SIZE < Len(ids) THEN n + BATCH_SIZE ELSE Len(ids))

\* as PauseAfter, with <= for <: a pause after a full last batch
PauseAfterFull(n, len) == n + BATCH_SIZE <= len

\* if i + BATCH_SIZE < len(msg_ids): time.sleep(SLEEP_TIME)
PauseAfter(n, len) == n + BATCH_SIZE < len

\* range(0, len(msg_ids), BATCH_SIZE) has a value after n
RangeHasNext(n, len) == n + BATCH_SIZE < len

\* the dict of one message of the result
MessageData(id, fld, flags, r) ==
    LET raw_email == DictGet(r, id).raw
    IN  [id |-> FormatId(id, fld),
         hasHeaders |-> flags[1],
         headers |-> IF flags[1] THEN HeadersOfRaw[raw_email] ELSE <<>>,
         hasBody |-> flags[2],
         body |-> IF flags[2] THEN BodyOfRaw[raw_email] ELSE <<>>]

\* as Reconstruct, with "for id in resp": the messages in the order of the
\* fetch responses
ReconstructRespOrder(ids, fld, flags, r) ==
    IF \E n \in 1..Len(ids) : ~DictHas(r, ids[n])
    THEN [err |-> TRUE, messages |-> <<>>]
    ELSE [err |-> FALSE,
          messages |-> [n \in 1..Len(r) |-> MessageData(r[n].k, fld, flags, r)]]

\* as Reconstruct, with "if id not in resp: continue": the ids no response
\* held are left out
ReconstructSkipMissing(ids, fld, flags, r) ==
    LET Held(id) == DictHas(r, id)
        held == SelectSeq(ids, Held)
    IN  [err |-> FALSE,
         messages |-> [n \in 1..Len(held) |-> MessageData(held[n], fld, flags, r)]]

\* the loop "for id in msg_ids": resp[id] raises KeyError for an id no
\* response held
Reconstruct(ids, fld, flags, r) ==
    IF \E n \in 1..Len(ids) : ~DictHas(r, ids[n])
    THEN [err |-> TRUE, messages |-> <<>>]
    ELSE [err |-> FALSE,
          messages |-> [n \in 1..Len(ids) |-> MessageData(ids[n], fld, flags, r)]]

\* the initial values of the variables of the operations
OpInit ==
    /\ op = "none" /\ pc = "idle" /\ outcome = "none" /\ failure = "none"
    /\ folder = <<>> /\ criteria_arg = <<>> /\ fields_arg = NoFields
    /\ fetchFlags = <<FALSE, FALSE>>
    /\ search_criteria = <<>> /\ msg_ids = <<>> /\ batch_i = 0 /\ resp = <<>>
    /\ message_ids = <<>> /\ idx = 0 /\ results = <<>> /\ retval = <<>>
    /\ sessions = 0 /\ log = <<>>

searchLocals == <<folder, criteria_arg, fields_arg, fetchFlags, search_criteria, msg_ids,
                  batch_i, resp>>
fetchLocals == <<message_ids, idx, results>>

\* as RaiseOutside, the exception being raised inside the with block
RaiseOutsideConnected(step) ==
    /\ outcome' = "raised" /\ failure' = step /\ pc' = "done"
    /\ log' = log \o <<ConnectEv, CloseEv>>
    /\ UNCHANGED sessions

\* an exception raised before any session is open
RaiseOutside(step) ==
    /\ outcome' = "raised" /\ failure' = step /\ pc' = "done"
    /\ UNCHANGED <<sessions, log>>

\* IMAPClient(...): the session is open if the constructor returns
Connect(ok, next) ==
    /\ log' = Append(log, ConnectEv)
    /\ IF ok THEN /\ sessions' = sessions + 1 /\ pc' = next
                  /\ UNCHANGED <<outcome, failure>>
       ELSE /\ outcome' = "raised" /\ failure' = "connect" /\ pc' = "done"
            /\ UNCHANGED sessions

\* as Call, without the with statement: an exception leaves the session open
CallNoExit(event, ok, step, next) ==
    IF ok THEN /\ log' = Append(log, event) /\ pc' = next
               /\ UNCHANGED <<outcome, failure, sessions>>
    ELSE /\ log' = Append(log, event)
         /\ outcome' = "raised" /\ failure' = step /\ pc' = "done"
         /\ UNCHANGED sessions

\* a call of the client inside the with block; an exception leaves the block,
\* whose __exit__ closes the session
Call(event, ok, step, next) ==
    IF ok THEN /\ log' = Append(log, event) /\ pc' = next
               /\ UNCHANGED <<outcome, failure, sessions>>
    ELSE /\ log' = log \o <<event, CloseEv>>
         /\ outcome' = "raised" /\ failure' = step /\ pc' = "done"
         /\ sessions' = sessions - 1

\* an exception raised inside the with block by something else than a call
RaiseInside(step) ==
    /\ log' = Append(log, CloseEv)
    /\ outcome' = "raised" /\ failure' = step /\ pc' = "done"
    /\ sessions' = sessions - 1

\* the part of search before the with block, r being dsl_to_search(criteria)
SearchStart(fld, crit, flds, r) ==
    /\ op' = "search"
    /\ folder' = fld /\ criteria_arg' = crit /\ fields_arg' = flds
    /\ fetchFlags' = <<FieldsGet(flds, "headers"), FieldsGet(flds, "body")>>
    /\ IF r.err
       THEN /\ RaiseOutside("criteria")
            /\ UNCHANGED search_criteria
       ELSE /\ search_criteria' = <<Charset, Utf8>> \o r.toks
            /\ pc' = "connect"
            /\ UNCHANGED <<outcome, failure, sessions, log>>

SearchCall ==
    /\ pc = "idle"
    /\ \E fld \in {Inbox}, crit \in SearchCriteria, flds \in FieldsInputs :
          SearchStart(fld, crit, flds, dsl_to_search(crit))
    /\ UNCHANGED <<useStartTls, msg_ids, batch_i, resp, retval>>
    /\ UNCHANGED fetchLocals
    /\ UNCHANGED <<dslVars, bodyVars>>

SearchConnect ==
    /\ op = "search" /\ pc = "connect"
    /\ \E ok \in BOOLEAN : Connect(ok, IF useStartTls THEN "starttls" ELSE "login")
    /\ UNCHANGED <<useStartTls, op, retval>>
    /\ UNCHANGED <<searchLocals, fetchLocals>>
    /\ UNCHANGED <<dslVars, bodyVars>>

SearchStartTls ==
    /\ op = "search" /\ pc = "starttls"
    /\ \E ok \in BOOLEAN : Call(Ev("starttls"), ok, "starttls", "login")
    /\ UNCHANGED <<useStartTls, op, retval>>
    /\ UNCHANGED <<searchLocals, fetchLocals>>
    /\ UNCHANGED <<dslVars, bodyVars>>

SearchLogin ==
    /\ op = "search" /\ pc = "login"
    /\ \E ok \in BOOLEAN : Call(Ev("login"), ok, "login", "select")
    /\ UNCHANGED <<useStartTls, op, retval>>
    /\ UNCHANGED <<searchLocals, fetchLocals>>
    /\ UNCHANGED <<dslVars, bodyVars>>

SearchSelect ==
    /\ op = "search" /\ pc = "select"
    /\ \E ok \in BOOLEAN : Call(SelectEv(folder), ok, "select", "search")
    /\ UNCHANGED <<useStartTls, op, retval>>
    /\ UNCHANGED <<searchLocals, fetchLocals>>
    /\ UNCHANGED <<dslVars, bodyVars>>

\* msg_ids = client.search(search_criteria), and the early return
SearchSearch ==
    /\ op = "search" /\ pc = "search"
    /\ \/ /\ Call(SearchEv(search_criteria), FALSE, "search", "done")
          /\ UNCHANGED <<msg_ids, retval>>
       \/ \E ids \in SearchResults :
             /\ msg_ids' = ids
             /\ IF ShortCircuit(fetch_email_data, ids)
                THEN /\ log' = log \o <<SearchEv(search_criteria), CloseEv>>
                     /\ sessions' = sessions - 1
                     /\ retval' = <<>>
                     /\ outcome' = "returned" /\ pc' = "done"
                     /\ UNCHANGED failure
                ELSE /\ Call(SearchEv(search_criteria), TRUE, "search", "fetch")
                     /\ UNCHANGED retval
    /\ UNCHANGED <<useStartTls, op, folder, criteria_arg, fields_arg, fetchFlags,
                   search_criteria, batch_i, resp>>
    /\ UNCHANGED fetchLocals
    /\ UNCHANGED <<dslVars, bodyVars>>

\* one iteration of the batch loop up to its pause
SearchFetchBatch ==
    /\ op = "search" /\ pc = "fetch"
    /\ LET batch_ids == Batch(msg_ids, batch_i)
       IN  \/ /\ Call(FetchEv(batch_ids), FALSE, "fetch", "done")
              /\ UNCHANGED <<resp, batch_i>>
           \/ \E batch_resp \in FetchReplies(batch_ids) :
                 /\ resp' = DictUpdate(resp, batch_resp)
                 /\ Call(FetchEv(batch_ids), TRUE, "fetch",
                         IF PauseAfter(batch_i, Len(msg_ids)) THEN "sleep"
                         ELSE IF RangeHasNext(batch_i, Len(msg_ids)) THEN "fetch"
                         ELSE "build")
                 /\ batch_i' = IF ~PauseAfter(batch_i, Len(msg_ids))
                                  /\ RangeHasNext(batch_i, Len(msg_ids))
                               THEN batch_i + BATCH_SIZE ELSE batch_i
    /\ UNCHANGED <<useStartTls, op, folder, criteria_arg, fields_arg, fetchFlags,
                   search_criteria, msg_ids, retval>>
    /\ UNCHANGED fetchLocals
    /\ UNCHANGED <<dslVars, bodyVars>>

\* time.sleep(SLEEP_TIME) returns, and the loop goes on
SearchSleep ==
    /\ op = "search" /\ pc = "sleep"
    /\ log' = Append(log, SleepEv(SLEEP_TIME_MS))
    /\ IF RangeHasNext(batch_i, Len(msg_ids))
       THEN /\ batch_i' = batch_i + BATCH_SIZE /\ pc' = "fetch"
       ELSE /\ pc' = "build" /\ UNCHANGED batch_i
    /\ UNCHANGED <<useStartTls, op, outcome, failure, folder, criteria_arg, fields_arg,
                   fetchFlags, search_criteria, msg_ids, resp, retval, sessions>>
    /\ UNCHANGED fetchLocals
    /\ UNCHANGED <<dslVars, bodyVars>>

\* the messages are built from resp and returned
SearchBuild ==
    /\ op = "search" /\ pc = "build"
    /\ LET r == Reconstruct(msg_ids, folder, fetchFlags, resp)
       IN  IF r.err
           THEN /\ RaiseInside("missing")
                /\ UNCHANGED retval
           ELSE /\ retval' = r.messages
                /\ log' = Append(log, CloseEv)
                /\ sessions' = sessions - 1
                /\ outcome' = "returned" /\ pc' = "done"
                /\ UNCHANGED failure
    /\ UNCHANGED <<useStartTls, op>>
    /\ UNCHANGED <<searchLocals, fetchLocals>>
    /\ UNCHANGED <<dslVars, bodyVars>>

---------------------------------------------------------------------------
(* The steps of fetch *)

FetchCall ==
    /\ pc = "idle"
    /\ \E ids \in FetchInputs :
          /\ op' = "fetch"
          /\ message_ids' = ids /\ results' = <<>> /\ idx' = 1
          /\ IF ids = <<>>
             THEN /\ retval' = <<>> /\ outcome' = "returned" /\ pc' = "done"
             ELSE /\ pc' = "split" /\ UNCHANGED <<retval, outcome>>
    /\ UNCHANGED <<useStartTls, failure, sessions, log>>
    /\ UNCHANGED searchLocals
    /\ UNCHANGED <<dslVars, bodyVars>>

\* id, folder = message_id.split("@", 1)
FetchSplit ==
    /\ op = "fetch" /\ pc = "split"
    /\ LET pieces == SplitAt(message_ids[idx])
       IN  IF Len(pieces) = 2
           THEN /\ folder' = pieces[2] /\ pc' = "connect"
                /\ UNCHANGED <<outcome, failure, sessions, log>>
           ELSE /\ RaiseOutside("split")
                /\ UNCHANGED folder
    /\ UNCHANGED <<useStartTls, op, retval, criteria_arg, fields_arg, fetchFlags,
                   search_criteria, msg_ids, batch_i, resp>>
    /\ UNCHANGED fetchLocals
    /\ UNCHANGED <<dslVars, bodyVars>>

FetchConnect ==
    /\ op = "fetch" /\ pc = "connect"
    /\ \E ok \in BOOLEAN : Connect(ok, IF useStartTls THEN "starttls" ELSE "login")
    /\ UNCHANGED <<useStartTls, op, retval>>
    /\ UNCHANGED <<searchLocals, fetchLocals>>
    /\ UNCHANGED <<dslVars, bodyVars>>

FetchStartTls ==
    /\ op = "fetch" /\ pc = "starttls"
    /\ \E ok \in BOOLEAN : Call(Ev("starttls"), ok, "starttls", "login")
    /\ UNCHANGED <<useStartTls, op, retval>>
    /\ UNCHANGED <<searchLocals, fetchLocals>>
    /\ UNCHANGED <<dslVars, bodyVars>>

FetchLogin ==
    /\ op = "fetch" /\ pc = "login"
    /\ \E ok \in BOOLEAN : Call(Ev("login"), ok, "login", "select")
    /\ UNCHANGED <<useStartTls, op, retval>>
    /\ UNCHANGED <<searchLocals, fetchLocals>>
    /\ UNCHANGED <<dslVars, bodyVars>>

FetchSelect ==
    /\ op = "fetch" /\ pc = "select"
    /\ \E ok \in BOOLEAN : Call(SelectEv(folder), ok, "select", "fetch")
    /\ UNCHANGED <<useStartTls, op, retval>>
    /\ UNCHANGED <<searchLocals, fetchLocals>>
    /\ UNCHANGED <<dslVars, bodyVars>>

\* the end of one iteration: the with block is left and the loop goes on
FetchStored(message_id, body) ==
    /\ results' = DictSet(results, [k |-> message_id, body |-> body])
    /\ sessions' = sessions - 1
    /\ idx' = idx + 1
    /\ IF idx < Len(message_ids)
       THEN /\ pc' = "split" /\ UNCHANGED <<retval, outcome>>
       ELSE /\ retval' = results' /\ outcome' = "returned" /\ pc' = "done"
    /\ UNCHANGED failure

\* resp = client.fetch(int(id), ["RFC822"]) and the rest of the with block
FetchFetch ==
    /\ op = "fetch" /\ pc = "fetch"
    /\ LET message_id == message_ids[idx]
           id == ParseInt(SplitAt(message_id)[1])
       IN  IF ~id.ok
           THEN /\ RaiseInside("int")
                /\ UNCHANGED <<results, idx, retval>>
           ELSE \/ /\ Call(FetchEv(<<id.n>>), FALSE, "fetch", "done")
                   /\ UNCHANGED <<results, idx, retval>>
                \/ \* the response has no entry for the id: KeyError
                   /\ log' = log \o <<FetchEv(<<id.n>>), CloseEv>>
                   /\ outcome' = "raised" /\ failure' = "missing" /\ pc' = "done"
                   /\ sessions' = sessions - 1
                   /\ UNCHANGED <<results, idx, retval>>
                \/ /\ log' = log \o <<FetchEv(<<id.n>>), CloseEv>>
                   /\ FetchStored(message_id, BodyOfRaw[RawOf(id.n)])
    /\ UNCHANGED <<useStartTls, op, message_ids>>
    /\ UNCHANGED searchLocals
    /\ UNCHANGED <<dslVars, bodyVars>>

---------------------------------------------------------------------------
(* The server: one call of a tool *)

\* get_email_body before a call on its own
BodyIdle == msg_arg = NoMsg /\ bodyPc = "ready" /\ bodyResult = <<>>

Init ==
    /\ dsl = <<>> /\ dslPc = "ready" /\ dslResult = <<>>
    /\ BodyIdle
    /\ useStartTls \in BOOLEAN
    /\ OpInit

Next ==
    \/ SearchCall \/ SearchConnect \/ SearchStartTls \/ SearchLogin
    \/ SearchSelect \/ SearchSearch \/ SearchFetchBatch \/ SearchSleep
    \/ SearchBuild
    \/ FetchCall \/ FetchSplit \/ FetchConnect \/ FetchStartTls \/ FetchLogin
    \/ FetchSelect \/ FetchFetch

Spec == Init /\ [][Next]_vars

---------------------------------------------------------------------------
(* The compiler applied to an input *)

DslInit ==
    /\ dsl \in DslInputs
    /\ dslPc = "ready"
    /\ dslResult = <<>>
    /\ BodyIdle
    /\ useStartTls = FALSE
    /\ OpInit

DslReturn(r) ==
    /\ dslPc' = IF r.err THEN "raised" ELSE "returned"
    /\ dslResult' = r.toks

DslToSearch ==
    /\ dslPc = "ready"
    /\ DslReturn(dsl_to_search(dsl))
    /\ UNCHANGED dsl
    /\ UNCHANGED bodyVars
    /\ UNCHANGED opVars

\* search called with the criteria dsl, up to the with block
DslSearch ==
    /\ pc = "idle"
    /\ \E flds \in FieldsInputs : SearchStart(Inbox, dsl, flds, dsl_to_search(dsl))
    /\ UNCHANGED <<useStartTls, msg_ids, batch_i, resp, retval>>
    /\ UNCHANGED fetchLocals
    /\ UNCHANGED <<dslVars, bodyVars>>

DslNext == DslToSearch \/ DslSearch

SpecDsl == DslInit /\ [][DslNext]_vars

---------------------------------------------------------------------------
(* The body selection applied to an input *)

BodyInit ==
    /\ dsl = <<>> /\ dslPc = "ready" /\ dslResult = <<>>
    /\ msg_arg \in MsgInputs
    /\ bodyPc = "ready"
    /\ bodyResult = <<>>
    /\ useStartTls = FALSE
    /\ OpInit

GetEmailBody ==
    /\ bodyPc = "ready"
    /\ bodyResult' = get_email_body(msg_arg)
    /\ bodyPc' = "returned"
    /\ UNCHANGED msg_arg
    /\ UNCHANGED <<dslVars, opVars>>

BodyNext == GetEmailBody

SpecBody == BodyInit /\ [][BodyNext]_vars

---------------------------------------------------------------------------
(* Properties of the compiler *)

OnlyKey(d, key) == Len(d) = 1 /\ d[1].k = key /\ d[1].isList

LeafOnly(d) == \A i \in 1..Len(d) : IsLeafKey(d[i].k)

\* a list of sub-expressions each of which has leaf keys only, and at least one
LeafSubs(subs) == \A i \in 1..Len(subs) : subs[i] # <<>> /\ LeafOnly(subs[i])

Rep(x, n) == [i \in 1..n |-> x]

\* C1: under IMAP SEARCH semantics the tokens compiled for {or: [c1, ..., cn]},
\* n >= 2, match a message iff the message matches at least one ci (stated here
\* for sub-expressions that have leaf keys only, one or several).
C1_OrMatchesAnyOperand ==
    (dslPc = "returned" /\ OnlyKey(dsl, "or") /\ Len(dsl[1].subs) >= 2
        /\ LeafSubs(dsl[1].subs))
    => \A msg \in Messages :
          Matches(dslResult, msg)
              <=> \E i \in 1..Len(dsl[1].subs) : DocMatches(dsl[1].subs[i], msg)

\* C2: under IMAP SEARCH semantics the tokens compiled for {not: [c1, ..., cn]},
\* n >= 1, match a message iff the message matches none of the ci, that is
\* NOT c1 AND NOT c2 AND ... AND NOT cn (stated here for sub-expressions that
\* have leaf keys only).
C2_NotNegatesEach ==
    (dslPc = "returned" /\ OnlyKey(dsl, "not") /\ Len(dsl[1].subs) >= 1
        /\ LeafSubs(dsl[1].subs))
    => \A msg \in Messages :
          Matches(dslResult, msg)
              <=> \A i \in 1..Len(dsl[1].subs) : ~DocMatches(dsl[1].subs[i], msg)

\* the opcode/operand pair of a leaf entry
Pair(e) == <<Tok(Opcode(e.k)), Tok(Operand(e))>>

\* C9 as claimed: a leaf-only expression compiles to one opcode/operand pair per
\* key present, in the fixed order from, to, cc, subject, since, before,
\* whatever the order of the keys in the input.
C9_FixedFieldOrder ==
    (dslPc = "returned" /\ LeafOnly(dsl) /\ dsl # <<>>)
    => dslResult = Concat([i \in 1..Len(LeafKeys) |->
                             IF Has(dsl, LeafKeys[i])
                             THEN Pair(Get(dsl, LeafKeys[i])) ELSE <<>>])

\* C9 as amended: a leaf-only expression whose dates parse compiles to one
\* opcode/operand pair per key present (a date reformatted as DD-Mon-YYYY), the
\* pairs in the order in which the keys were given in the input.
C9_InputKeyOrder ==
    (dslPc = "returned" /\ LeafOnly(dsl) /\ dsl # <<>>)
    => /\ Len(dslResult) = 2 * Len(dsl)
       /\ \A i \in 1..Len(dsl) :
             /\ dslResult[2 * i - 1] = Tok(Opcode(dsl[i].k))
             /\ dslResult[2 * i] = Tok(Operand(dsl[i]))
       /\ dsl = <<Leaf("since", Date1)>>
             => dslResult[2] = Tok(<<"1","5","-","J","a","n","-","2","0","2","3">>)
       /\ dsl = <<Leaf("before", Date2)>>
             => dslResult[2] = Tok(<<"0","1","-","A","p","r","-","2","0","2","4">>)

\* two leaf keys given in the reverse of the fixed order, compiled in input order
C9_Witness ==
    /\ dslPc = "returned"
    /\ dsl = <<Leaf("subject", <<"s">>), Leaf("from", <<"a">>)>>
    /\ dslResult = <<Tok(SUBJECT), Tok(<<"s">>), Tok(FROM), Tok(<<"a">>)>>

\* C10: an expression whose only key is or, with n >= 2 sub-expressions that
\* compile to g1..gn, compiles to n-1 OR opcodes followed by g1, ..., gn in list
\* order; for n = 2 exactly [OR] + g1 + g2.
C10_OrFoldFlattened ==
    (dslPc = "returned" /\ OnlyKey(dsl, "or") /\ Len(dsl[1].subs) >= 2)
    => LET subs == dsl[1].subs
           g == [i \in 1..Len(subs) |-> parse_criteria(subs[i]).toks]
       IN  /\ dslResult = Rep(Tok(OR), Len(subs) - 1) \o Concat(g)
           /\ Len(subs) = 2 => dslResult = <<Tok(OR)>> \o g[1] \o g[2]
           /\ subs = << <<Leaf("from", <<"a">>)>>, <<Leaf("to", <<"b">>)>> >>
                 => dslResult = <<Tok(OR), Tok(FROM), Tok(<<"a">>),
                                  Tok(TO), Tok(<<"b">>)>>

\* an or list of three sub-expressions, one of them with two leaf keys
C10_Witness ==
    /\ dslPc = "returned"
    /\ OnlyKey(dsl, "or")
    /\ Len(dsl[1].subs) = 3
    /\ Len(dslResult) = 10
    /\ dslResult[1] = Tok(OR) /\ dslResult[2] = Tok(OR) /\ dslResult[3] # Tok(OR)

\* the entry of a key of an expression is a list
HasList(d, key) == Has(d, key) /\ Get(d, key).isList

\* the token groups the sub-expressions of a list compile to
Groups(subs) == [i \in 1..Len(subs) |-> parse_criteria(subs[i]).toks]

\* the number of leaf keys of an expression
LeafCount(d) == Cardinality({i \in 1..Len(d) : IsLeafKey(d[i].k)})

\* the number of elements an or list adds to the output
OrLength(d) ==
    IF HasList(d, "or") /\ Len(Get(d, "or").subs) >= 2
    THEN Len(Get(d, "or").subs) - 1 + Len(Concat(Groups(Get(d, "or").subs)))
    ELSE 0

\* the positions of the output that hold a nested list
NestedAt(toks) == {p \in 1..Len(toks) : toks[p].nested}

\* C11: a not list of which at least one sub-expression compiles to tokens
\* contributes exactly two elements to the output: one NOT opcode followed by
\* one nested list, the concatenation in list order of the tokens of every
\* sub-expression (stated for expressions whose or sub-expressions, if any,
\* have leaf keys only, so that every nested list of the output is the not's).
C11_SingleNotGroup ==
    (dslPc = "returned" /\ HasList(dsl, "not")
        /\ Concat(Groups(Get(dsl, "not").subs)) # <<>>
        /\ (HasList(dsl, "or") => LeafSubs(Get(dsl, "or").subs)))
    => LET merged == Concat(Groups(Get(dsl, "not").subs))
       IN  /\ Cardinality(NestedAt(dslResult)) = 1
           /\ \A p \in NestedAt(dslResult) :
                 /\ p > 1
                 /\ dslResult[p - 1] = Tok(NOT)
                 /\ dslResult[p].sub = merged
           /\ Cardinality({p \in 1..Len(dslResult) : dslResult[p] = Tok(NOT)}) = 1
           /\ Len(dslResult) = 2 * LeafCount(dsl) + 2 + OrLength(dsl)
           /\ OnlyKey(dsl, "not") => dslResult = <<Tok(NOT), NestedTok(merged)>>

\* a not list of two sub-expressions merged under one NOT
C11_Witness ==
    /\ dslPc = "returned"
    /\ dsl = <<ListOf("not", << <<Leaf("from", <<"a">>)>>,
                                <<Leaf("cc", <<"c">>), Leaf("subject", <<"s">>)>> >>)>>
    /\ dslResult = <<Tok(NOT), NestedTok(<<Tok(FROM), Tok(<<"a">>), Tok(CC), Tok(<<"c">>),
                                           Tok(SUBJECT), Tok(<<"s">>)>>)>>

RECURSIVE Contributes(_)
\* an expression contributes tokens: it has a leaf key, a not list with a
\* sub-expression that contributes, or an or list of two or more
Contributes(d) ==
    \/ LeafCount(d) > 0
    \/ HasList(d, "not")
          /\ \E i \in 1..Len(Get(d, "not").subs) : Contributes(Get(d, "not").subs[i])
    \/ HasList(d, "or") /\ Len(Get(d, "or").subs) >= 2

\* C12: dsl_to_search never returns an empty list; for an expression that
\* contributes no tokens (empty, unknown keys only, not/or that add nothing)
\* it returns exactly [ALL], and search then has exactly [charset, UTF-8, ALL]
\* as the criteria of its search call.
C12_NeverEmpty ==
    /\ dslPc = "returned"
          => /\ dslResult # <<>>
             /\ ~Contributes(dsl) => dslResult = <<Tok(ALL)>>
    /\ (op = "search" /\ pc = "connect")
          => /\ Len(search_criteria) >= 3
             /\ SubSeq(search_criteria, 1, 2) = <<Charset, Utf8>>
             /\ ~Contributes(dsl) => search_criteria = <<Charset, Utf8, Tok(ALL)>>

\* an or list of one sub-expression adds nothing: search asks for ALL
C12_Witness ==
    /\ dslPc = "returned"
    /\ op = "search" /\ pc = "connect"
    /\ dsl # <<>> /\ HasList(dsl, "or") /\ Len(Get(dsl, "or").subs) = 1
    /\ dslResult = <<Tok(ALL)>>
    /\ search_criteria = <<Charset, Utf8, Tok(ALL)>>

\* the pairs of the leaf keys of an expression, in the order of its keys
LeafPart(d) ==
    Concat([i \in 1..Len(d) |-> IF IsLeafKey(d[i].k) THEN Pair(d[i]) ELSE <<>>])

\* the NOT opcode and the nested list of a not list that compiles to tokens
NotPart(d) ==
    IF HasList(d, "not") /\ Concat(Groups(Get(d, "not").subs)) # <<>>
    THEN <<Tok(NOT), NestedTok(Concat(Groups(Get(d, "not").subs)))>>
    ELSE <<>>

\* the OR opcodes and the groups of an or list of two or more
OrPart(d) ==
    IF HasList(d, "or") /\ Len(Get(d, "or").subs) >= 2
    THEN Rep(Tok(OR), Len(Get(d, "or").subs) - 1) \o Concat(Groups(Get(d, "or").subs))
    ELSE <<>>

\* C15: the output is the leaf-field tokens, then the not group, then the or
\* group, in this order; the leaf-field tokens and the NOT group are never
\* inside or after an OR opcode, also for an or list of three or more.
C15_LeafNotOrOrder ==
    (dslPc = "returned" /\ Contributes(dsl))
    => /\ dslResult = LeafPart(dsl) \o NotPart(dsl) \o OrPart(dsl)
       /\ \A p \in 1..(Len(LeafPart(dsl)) + Len(NotPart(dsl))) : dslResult[p] # Tok(OR)

---------------------------------------------------------------------------
(* Properties of search and fetch *)

IsFetchEv(e) == e.ev = "fetch"
IsPauseEv(e) == e.ev = "sleep"
IsLoopEv(e)  == e.ev \in {"fetch", "sleep"}

FetchEvents == SelectSeq(log, IsFetchEv)
PauseEvents == SelectSeq(log, IsPauseEv)
LoopEvents  == SelectSeq(log, IsLoopEv)

\* search got its ids and went into the batch loop
InFetchPath == op = "search" /\ pc \in {"fetch", "sleep", "build", "done"}
                 /\ failure # "criteria" /\ msg_ids # <<>> /\ fetch_email_data

\* the batch loop of search has run to its end
LoopDone == InFetchPath /\ (pc = "build" \/ (pc = "done" /\ failure \in {"none", "missing"}))

\* search returned the messages of a non-empty search result
ReturnedMessages == InFetchPath /\ pc = "done" /\ outcome = "returned"

TransportFailures == {"connect", "starttls", "login", "select", "search", "fetch"}

\* C3: in fetch, when the lookup of one id fails (the id is absent from the
\* response, or connect/login/select/fetch fails) the remaining ids are still
\* looked up and fetch returns a mapping with the body of every id that was found.
C3_FetchBestEffort ==
    (op = "fetch" /\ pc = "done" /\ failure \in TransportFailures \cup {"missing"}
        /\ idx < Len(message_ids))
    => outcome = "returned"

\* C4: search returns no partially filled list: when login, select, search or a
\* batch fetch fails, or a response lacks a searched id, it ends in an error and
\* returns nothing; what it returns after a non-empty search with data
\* requested has every id of the search result, each fetched.
C4_NoPartialResult ==
    (op = "search" /\ pc = "done")
    => /\ outcome \in {"returned", "raised"}
       /\ failure # "none" => outcome = "raised" /\ retval = <<>>
       /\ (\E n \in 1..Len(msg_ids) : ~DictHas(resp, msg_ids[n]))
              => retval = <<>> /\ (fetch_email_data => outcome = "raised")
       /\ outcome = "returned" =>
             IF fetch_email_data
             THEN /\ Len(retval) = Len(msg_ids)
                  /\ \A n \in 1..Len(msg_ids) :
                        \E k \in 1..Len(FetchEvents) :
                           \E m \in 1..Len(FetchEvents[k].ids) :
                              FetchEvents[k].ids[m] = msg_ids[n]
             ELSE retval = <<>>

\* a later batch fails after an earlier one succeeded
C4_Witness ==
    /\ op = "search" /\ pc = "done" /\ outcome = "raised"
    /\ failure = "fetch" /\ batch_i >= BATCH_SIZE /\ Len(resp) >= BATCH_SIZE
    /\ retval = <<>>

\* C5: when search succeeds with headers or body requested, the messages are
\* one per id of the search result, in the order of the search result, the
\* n-th with id "<n-th id>@<folder>", whatever the order of the ids in the fetch
\* responses and however they are split over batches.
C5_SearchOrder ==
    ReturnedMessages
    => /\ Len(retval) = Len(msg_ids)
       /\ \A n \in 1..Len(msg_ids) :
             /\ retval[n].id = Decimal(msg_ids[n]) \o <<"@">> \o folder
             /\ msg_ids[n] = 42 /\ folder = Inbox
                   => retval[n].id = <<"4","2","@","I","N","B","O","X">>

\* two batches, and the responses not in the order of the search result
C5_Witness ==
    /\ ReturnedMessages
    /\ Len(msg_ids) > BATCH_SIZE
    /\ Len(FetchEvents) = 2
    /\ \E n \in 1..Len(msg_ids) : resp[n].k # msg_ids[n]
    /\ retval[1].id = Decimal(msg_ids[1]) \o <<"@">> \o Inbox

\* C6: for n >= 1 ids with headers or body requested, search issues exactly
\* ceil(n/50) fetch calls, each of 1 to 50 ids, all but the last of exactly 50,
\* and the batches concatenated in call order are the search id list.
C6_Batches ==
    LoopDone
    => /\ Len(FetchEvents) = (Len(msg_ids) + 49) \div 50
       /\ \A k \in 1..Len(FetchEvents) :
             /\ Len(FetchEvents[k].ids) \in 1..50
             /\ k < Len(FetchEvents) => Len(FetchEvents[k].ids) = 50
       /\ Concat([k \in 1..Len(FetchEvents) |-> FetchEvents[k].ids]) = msg_ids

\* three fetch calls, the last of one id
C6_Witness ==
    /\ LoopDone
    /\ Len(msg_ids) = 101
    /\ Len(FetchEvents) = 3
    /\ Len(FetchEvents[3].ids) = 1

\* C7: the events of the batch loop alternate fetch, pause, fetch, ..., fetch:
\* one pause of the fixed duration between two consecutive fetch calls, none
\* before the first fetch or after the last (pauses = batches - 1, none for a
\* single batch), and no transport call while a pause is in progress.
C7_LoopAlternates ==
    op = "search"
    => /\ \A k \in 1..Len(LoopEvents) :
             IF k % 2 = 1 THEN LoopEvents[k].ev = "fetch"
             ELSE LoopEvents[k].ev = "sleep" /\ LoopEvents[k].ms = 500
       /\ LoopDone => /\ Len(PauseEvents) = Len(FetchEvents) - 1
                      /\ LoopEvents[Len(LoopEvents)].ev = "fetch"
                      /\ Len(msg_ids) <= 50 => PauseEvents = <<>>
       /\ pc = "sleep" => /\ log[Len(log)].ev = "fetch"
                          /\ ~ENABLED (SearchConnect \/ SearchStartTls \/ SearchLogin
                                         \/ SearchSelect \/ SearchSearch
                                         \/ SearchFetchBatch \/ SearchBuild)

\* three batches with two pauses, none after the last batch
C7_Witness ==
    /\ LoopDone /\ pc = "done"
    /\ Len(FetchEvents) = 3 /\ Len(PauseEvents) = 2
    /\ log[Len(log) - 1].ev = "fetch"

\* the fields argument asks for neither headers nor body
NoDataRequested(f) ==
    f.isNone \/ ~\E n \in 1..Len(f.d) : f.d[n].k \in {"headers", "body"} /\ f.d[n].b

\* the search call was made and returned
Searched == \E n \in 1..Len(log) : log[n].ev = "search" /\ failure # "search"

AtSigns(message_id) == {n \in 1..Len(message_id) : message_id[n] = "@"}

\* the text after the first "@" of a message id
FolderOf(message_id) ==
    IF AtSigns(message_id) = {} THEN <<>>
    ELSE LET n == CHOOSE n \in AtSigns(message_id) : \A m \in AtSigns(message_id) : n <= m
         IN  SubSeq(message_id, n + 1, Len(message_id))

\* the number written before the first "@" of a message id
NumberOf(message_id) ==
    IF AtSigns(message_id) = {} THEN 0
    ELSE LET n == CHOOSE n \in AtSigns(message_id) : \A m \in AtSigns(message_id) : n <= m
         IN  IF n > 1 /\ \A m \in 1..(n - 1) : IsDigit(message_id[m])
             THEN NumberAt(message_id, 1, n - 1) ELSE 0

\* the calls of the lookup of one id: its own session, one login, one select
\* of its folder, one fetch of its number
Lookup(message_id) ==
    <<ConnectEv>> \o (IF useStartTls THEN <<Ev("starttls")>> ELSE <<>>)
        \o <<Ev("login"), SelectEv(FolderOf(message_id)),
             FetchEv(<<NumberOf(message_id)>>), CloseEv>>

\* the lookups of the ids of a call, one after the other in input order
Lookups == Concat([n \in 1..Len(message_ids) |-> Lookup(message_ids[n])])

\* the log without the close that follows an exception inside the with block
BeforeExit ==
    IF failure \in {"starttls", "login", "select", "fetch", "int"}
    THEN SubSeq(log, 1, Len(log) - 1) ELSE log

IsConnectEv(e) == e.ev = "connect"

IsCloseEv(e) == e.ev = "close"

\* the sessions opened so far: the IMAPClient constructors that returned
Opened == Len(SelectSeq(log, IsConnectEv)) - (IF failure = "connect" THEN 1 ELSE 0)

\* C16: every session search or fetch opened is closed when the operation
\* returns or fails, at whichever step the failure occurs (STARTTLS, login,
\* select, search, a batch fetch, the reconstruction); sessions are open only
\* inside the with block.
C16_SessionsClosed ==
    /\ sessions = Opened - Len(SelectSeq(log, IsCloseEv))
    /\ sessions >= 0
    /\ pc \in {"idle", "split", "connect", "done"} => sessions = 0
    /\ pc = "done" => Len(SelectSeq(log, IsCloseEv)) = Opened

\* search fails in the reconstruction, after all its batches were fetched
C16_Witness ==
    /\ op = "search" /\ pc = "done" /\ outcome = "raised" /\ failure = "missing"
    /\ Len(msg_ids) > BATCH_SIZE
    /\ Opened = 1 /\ sessions = 0
    /\ log[Len(log)] = CloseEv

RECURSIVE HasRejectedDate(_)
\* an expression holds, at some nesting level, a since or before value that
\* does not parse as a date
HasRejectedDate(d) ==
    \E i \in 1..Len(d) :
       \/ d[i].k \in {"since", "before"} /\ format_date(d[i].v).err
       \/ /\ d[i].k \in {"or", "not"} /\ d[i].isList
          /\ \E j \in 1..Len(d[i].subs) : HasRejectedDate(d[i].subs[j])

\* C17: when the criteria of search hold a malformed since or before date at
\* any nesting level, search fails with the parse error and nothing has gone
\* to the network: no session opened, no login, select, search or fetch call.
C17_BadDateBeforeNetwork ==
    op = "search"
    => /\ HasRejectedDate(criteria_arg)
             => /\ pc = "done" /\ outcome = "raised" /\ failure = "criteria"
                /\ log = <<>> /\ sessions = 0
                /\ search_criteria = <<>> /\ retval = <<>>
       /\ failure = "criteria" => HasRejectedDate(criteria_arg)

\* a malformed date in an or list inside a not list
C17_Witness ==
    /\ op = "search" /\ pc = "done" /\ outcome = "raised" /\ failure = "criteria"
    /\ criteria_arg =
          <<ListOf("not", << <<ListOf("or", << <<Leaf("from", <<"a">>)>>,
                                               <<Leaf("since", BadDate)>> >>)>> >>)>>
    /\ log = <<>> /\ sessions = 0

---------------------------------------------------------------------------
(* Properties of the body selection *)

\* a part that get_email_body does not skip as an attachment
Inline(part) == ~Contains(Attachment, Lower(part.disposition))

\* the position of the first part of a content type that is not an
\* attachment, 0 if there is none
FirstPart(parts, ctype) ==
    LET at == {n \in 1..Len(parts) : parts[n].ctype = ctype /\ Inline(parts[n])}
    IN  IF at = {} THEN 0 ELSE CHOOSE n \in at : \A m \in at : n <= m

\* C14 as claimed: the body is the text of the first text/plain part that is
\* not an attachment whenever there is one, whatever its content; otherwise
\* the text of the first such text/html part; otherwise the empty string.
C14_PlainWheneverPresent ==
    bodyPc = "returned"
    => LET parts == msg_arg.parts
       IN  bodyResult =
              IF FirstPart(parts, TextPlain) # 0
              THEN parts[FirstPart(parts, TextPlain)].payload
              ELSE IF FirstPart(parts, TextHtml) # 0
              THEN parts[FirstPart(parts, TextHtml)].payload
              ELSE <<>>

\* C14 as amended: the body is the text of the first text/plain part that is
\* not an attachment if that text is not empty; otherwise (no such part, or
\* its text is empty) the text of the first such text/html part, if any;
\* otherwise the empty string.  Only the first part of each type counts.
C14_PlainIfNotEmpty ==
    bodyPc = "returned"
    => LET parts == msg_arg.parts
       IN  bodyResult =
              IF FirstPart(parts, TextPlain) # 0
                 /\ parts[FirstPart(parts, TextPlain)].payload # <<>>
              THEN parts[FirstPart(parts, TextPlain)].payload
              ELSE IF FirstPart(parts, TextHtml) # 0
              THEN parts[FirstPart(parts, TextHtml)].payload
              ELSE <<>>

\* an empty text/plain part first, then a text/plain part with text and a
\* text/html part: the body is the html text
C14_Witness ==
    /\ bodyPc = "returned"
    /\ msg_arg.parts = << Part(TextPlain, <<>>, <<>>), Part(TextPlain, <<>>, <<"q">>),
                          Part(TextHtml, <<>>, <<"h">>) >>
    /\ bodyResult = <<"h">>

====
